---------------------------- MODULE Spec2Model ----------------------------
(***************************************************************************)
(* MavlinkStreamAvesaidStatus (src/modules/mavlink/streams/                *)
(* AVESAID_STATUS.hpp): the MAVLink stream that forwards the uORB topic    *)
(* avesaid_status as the MAVLink message AVESAID_STATUS.                   *)
(*                                                                         *)
(* The stream owns one uORB::Subscription.  get_size() reports the wire    *)
(* size (0 while the topic is not advertised); send() polls the            *)
(* subscription with update() and, when a new sample is there, fills a     *)
(* mavlink_avesaid_status_t field by field and hands it to                 *)
(* mavlink_msg_avesaid_status_send_struct on the instance's channel.       *)
(*                                                                         *)
(* uORB (the topic, its publisher, the subscription) and the MAVLink       *)
(* transport are collaborators whose code is outside the stream's file;    *)
(* they are modelled as the single-slot cell with a freshness flag and the *)
(* fire-and-forget write sink that the design document describes.          *)
(***************************************************************************)
EXTENDS Integers, Sequences, FiniteSets

\* ------------------------------------------------------------------ bounds

\* Number of publishes on the topic in one behaviour.
MaxPublish == 3

\* Timestamps published are drawn from 0..MaxTime.
MaxTime == 1

\* Number of publishes in one behaviour of the step-wise specification SpecConc.
MaxConcPublish == 3

\* ------------------------------------------------------- program constants

\* Payload length of AVESAID_STATUS and the framing overhead of a MAVLink 2
\* frame.  Both come from the generated MAVLink headers; get_size() only adds
\* them, and nothing below depends on the values beyond their being positive.
MAVLINK_MSG_ID_AVESAID_STATUS_LEN == 13

MAVLINK_NUM_NON_PAYLOAD_BYTES == 12

\* ------------------------------------------------------------------- types

Timestamps == 0..MaxTime

\* avesaid_status_s: the uORB record.
avesaid_status_s ==
    [timestamp : Timestamps,
     flag_mode_attachment_enabled : BOOLEAN,
     flag_mode_partial_attachment_enabled : BOOLEAN,
     flag_magnet_enabled : BOOLEAN,
     flag_height_source_baro_enabled : BOOLEAN,
     flag_height_source_slam_enabled : BOOLEAN]

\* avesaid_status_s avesaid_status{} : value-initialised, every field zero.
ZeroStatus ==
    [timestamp |-> 0,
     flag_mode_attachment_enabled |-> FALSE,
     flag_mode_partial_attachment_enabled |-> FALSE,
     flag_magnet_enabled |-> FALSE,
     flag_height_source_baro_enabled |-> FALSE,
     flag_height_source_slam_enabled |-> FALSE]

VARIABLES
    advertised,      \* uORB: a publisher has attached to avesaid_status
    topic,           \* uORB: the value stored in the topic's single slot
    fresh,           \* _avesaid_status_sub: a value newer than the last one returned exists
    channel_active,  \* the Mavlink instance's channel is able to transmit
    out,             \* messages handed to mavlink_msg_avesaid_status_send_struct by the last step
    tx_ok,           \* whether the transport transmitted the last message handed to it
    op,              \* the operation executed last
    send_ret,        \* return value of the last send()
    size_ret,        \* return value of the last get_size() (-1: never called)
    npub,            \* history: number of publishes so far; the stored value is publish number npub
    tx_idx,          \* history: publish numbers of the records handed to the transport, in order
    sent_since_pub,  \* history: send() was called since the last publish
    trues_since_pub, \* history: send() calls that returned true since the last publish
    pubs_since_true, \* history: publishes since the last send() that returned true
    unsent_old,      \* history: publishes followed by another publish with no send() between
    n_true,          \* history: number of send() calls that returned true
    pc,              \* SpecConc: where the scheduler thread is inside send()
    local,           \* SpecConc: send()'s local avesaid_status, as update() filled it
    writing,         \* SpecConc: the producer is inside a publish, holding the topic's lock
    pending,         \* SpecConc: the record the producer is writing
    pub_log,         \* SpecConc history: the records completely published, in order
    tx_log           \* SpecConc history: the messages handed to the transport, in order

\* The variables only the step-wise specification SpecConc changes.
concVars == <<pc, local, writing, pending, pub_log, tx_log>>

vars == <<advertised, topic, fresh, channel_active, out, tx_ok, op, send_ret,
          size_ret, npub, tx_idx, sent_since_pub, trues_since_pub,
          pubs_since_true, unsent_old, n_true, concVars>>

Min(a, b) == IF a < b THEN a ELSE b

Range(s) == {s[i] : i \in 1..Len(s)}

\* State after construction: MavlinkStream(mavlink), a subscription that has
\* returned nothing yet, on a topic nobody has advertised.
Init ==
    /\ advertised = FALSE
    /\ topic = ZeroStatus
    /\ fresh = FALSE
    /\ channel_active = TRUE
    /\ out = <<>>
    /\ tx_ok = TRUE
    /\ op = "init"
    /\ send_ret = FALSE
    /\ size_ret = -1
    /\ npub = 0
    /\ tx_idx = <<>>
    /\ sent_since_pub = FALSE
    /\ trues_since_pub = 0
    /\ pubs_since_true = 0
    /\ unsent_old = {}
    /\ n_true = 0
    /\ pc = "idle"
    /\ local = ZeroStatus
    /\ writing = FALSE
    /\ pending = ZeroStatus
    /\ pub_log = <<>>
    /\ tx_log = <<>>

\* ------------------------------------------------- uORB (the state bus)

\* orb_advertise: a publisher attaches to the topic.  Nothing is published yet.
Advertise ==
    /\ ~advertised
    /\ advertised' = TRUE
    /\ op' = "advertise"
    /\ out' = <<>>
    /\ UNCHANGED <<topic, fresh, channel_active, tx_ok, send_ret, size_ret,
                   npub, tx_idx, sent_since_pub, trues_since_pub,
                   pubs_since_true, unsent_old, n_true, concVars>>

\* orb_publish: the record replaces the stored value in one step and marks the
\* subscription's slot fresh.  Publishing attaches the publisher if it has not
\* attached yet.
Publish(r) ==
    /\ npub < MaxPublish
    /\ advertised' = TRUE
    /\ topic' = r
    /\ fresh' = TRUE
    /\ npub' = npub + 1
    /\ unsent_old' = IF npub >= 1 /\ ~sent_since_pub
                     THEN unsent_old \cup {npub}
                     ELSE unsent_old
    /\ sent_since_pub' = FALSE
    /\ trues_since_pub' = 0
    /\ pubs_since_true' = Min(pubs_since_true + 1, MaxPublish)
    /\ op' = "publish"
    /\ out' = <<>>
    /\ UNCHANGED <<channel_active, tx_ok, send_ret, size_ret, tx_idx, n_true,
                   concVars>>

\* uORB::Subscription::advertised(): whether a publisher has ever attached,
\* whatever the freshness.
Subscription_advertised == advertised

\* uORB::Subscription::update(&dst): returns r, which is false when no value
\* newer than the last one returned exists; otherwise the stored value is
\* copied to dst (read by the caller as topic) and the slot is no longer fresh.
Subscription_update(r) ==
    /\ r = fresh
    /\ fresh' = FALSE
    /\ UNCHANGED <<advertised, topic>>

\* --------------------------------------------------- MAVLink transport

\* The channel of the Mavlink instance starts or stops being able to transmit.
ChannelChange ==
    /\ channel_active' = ~channel_active
    /\ op' = "channel"
    /\ out' = <<>>
    /\ UNCHANGED <<advertised, topic, fresh, tx_ok, send_ret, size_ret, npub,
                   tx_idx, sent_since_pub, trues_since_pub, pubs_since_true,
                   unsent_old, n_true, concVars>>

\* mavlink_msg_avesaid_status_send_struct(chan, &msg): the message is handed
\* to the transport.  The call returns nothing; the transport transmits the
\* message or drops it (always drops it on a channel that is not active).
mavlink_msg_avesaid_status_send_struct(msg) ==
    /\ out' = <<msg>>
    /\ tx_idx' = Append(tx_idx, npub)
    /\ tx_ok' \in (IF channel_active THEN BOOLEAN ELSE {FALSE})

\* ------------------------------------------ MavlinkStreamAvesaidStatus

\* Mutant of get_size: the unconditional return of line 53, which the source
\* keeps commented out.
get_size_unconditional ==
    MAVLINK_MSG_ID_AVESAID_STATUS_LEN + MAVLINK_NUM_NON_PAYLOAD_BYTES

\* Mutant of get_size: the size gated on updated() (a fresh value) instead of
\* advertised().
get_size_updated ==
    IF Subscription_advertised /\ fresh
    THEN MAVLINK_MSG_ID_AVESAID_STATUS_LEN + MAVLINK_NUM_NON_PAYLOAD_BYTES
    ELSE 0

\* get_size(), line 52.
get_size ==
    IF Subscription_advertised
    THEN MAVLINK_MSG_ID_AVESAID_STATUS_LEN + MAVLINK_NUM_NON_PAYLOAD_BYTES
    ELSE 0

\* Mutant of PopulateMsg: the two height-source flags assigned crosswise.
PopulateMsg_swapped(avesaid_status) ==
    [timestamp |-> avesaid_status.timestamp,
     flag_mode_attachment_enabled |-> avesaid_status.flag_mode_attachment_enabled,
     flag_mode_partial_attachment_enabled |->
         avesaid_status.flag_mode_partial_attachment_enabled,
     flag_magnet_enabled |-> avesaid_status.flag_magnet_enabled,
     flag_height_source_baro_enabled |->
         avesaid_status.flag_height_source_slam_enabled,
     flag_height_source_slam_enabled |->
         avesaid_status.flag_height_source_baro_enabled]

\* Lines 67-74: mavlink_avesaid_status_t msg{} filled from avesaid_status.
PopulateMsg(avesaid_status) ==
    [timestamp |-> avesaid_status.timestamp,
     flag_mode_attachment_enabled |-> avesaid_status.flag_mode_attachment_enabled,
     flag_mode_partial_attachment_enabled |->
         avesaid_status.flag_mode_partial_attachment_enabled,
     flag_magnet_enabled |-> avesaid_status.flag_magnet_enabled,
     flag_height_source_baro_enabled |->
         avesaid_status.flag_height_source_baro_enabled,
     flag_height_source_slam_enabled |->
         avesaid_status.flag_height_source_slam_enabled]

\* uORB::Subscription::copy(&dst), used by the mutant send_copy: returns true
\* whenever the topic holds data, fresh or not.
Subscription_copy(r) ==
    /\ r = (npub >= 1)
    /\ fresh' = FALSE
    /\ UNCHANGED <<advertised, topic>>

\* Mutant of send: the subscription is read with copy() instead of update().
send_copy ==
    \E copied \in BOOLEAN :
        /\ Subscription_copy(copied)
        /\ IF copied
           THEN /\ mavlink_msg_avesaid_status_send_struct(PopulateMsg(topic))
                /\ send_ret' = TRUE
           ELSE /\ out' = <<>>
                /\ UNCHANGED <<tx_idx, tx_ok>>
                /\ send_ret' = FALSE

\* Mutant of send: the message is sent after the if block, whatever update()
\* returned (a zero message when it returned false).
send_write_always ==
    \E updated \in BOOLEAN :
        /\ Subscription_update(updated)
        /\ mavlink_msg_avesaid_status_send_struct(
               PopulateMsg(IF updated THEN topic ELSE ZeroStatus))
        /\ send_ret' = updated

\* Mutant of send: the return true of line 79 is missing, and the call falls
\* through to return false.
send_falls_through ==
    \E updated \in BOOLEAN :
        /\ Subscription_update(updated)
        /\ IF updated
           THEN mavlink_msg_avesaid_status_send_struct(PopulateMsg(topic))
           ELSE /\ out' = <<>>
                /\ UNCHANGED <<tx_idx, tx_ok>>
        /\ send_ret' = FALSE

\* Mutant of send: the transport's outcome is returned.
send_surfaces_tx ==
    \E updated \in BOOLEAN :
        /\ Subscription_update(updated)
        /\ IF updated
           THEN /\ mavlink_msg_avesaid_status_send_struct(PopulateMsg(topic))
                /\ send_ret' = tx_ok'
           ELSE /\ out' = <<>>
                /\ UNCHANGED <<tx_idx, tx_ok>>
                /\ send_ret' = FALSE

\* Mutant of send: the call of line 77 is missing; the value is taken and true
\* returned, and nothing is handed to the transport.
send_no_write ==
    \E updated \in BOOLEAN :
        /\ Subscription_update(updated)
        /\ out' = <<>>
        /\ UNCHANGED <<tx_idx, tx_ok>>
        /\ send_ret' = updated

\* send(), lines 60-83.
send ==
    \E updated \in BOOLEAN :
        /\ Subscription_update(updated)
        /\ IF updated
           THEN /\ mavlink_msg_avesaid_status_send_struct(PopulateMsg(topic))
                /\ send_ret' = TRUE
           ELSE /\ out' = <<>>
                /\ UNCHANGED <<tx_idx, tx_ok>>
                /\ send_ret' = FALSE

\* Mutant of GetSize: get_size() asks the subscription with update() instead
\* of advertised(), which takes the fresh value.
GetSize_update ==
    /\ size_ret' = (IF fresh
                    THEN MAVLINK_MSG_ID_AVESAID_STATUS_LEN + MAVLINK_NUM_NON_PAYLOAD_BYTES
                    ELSE 0)
    /\ fresh' = FALSE
    /\ op' = "get_size"
    /\ out' = <<>>
    /\ UNCHANGED <<advertised, topic, channel_active, tx_ok, send_ret,
                   npub, tx_idx, sent_since_pub, trues_since_pub,
                   pubs_since_true, unsent_old, n_true, concVars>>

\* The scheduler calls get_size().
GetSize ==
    /\ size_ret' = get_size
    /\ op' = "get_size"
    /\ out' = <<>>
    /\ UNCHANGED <<advertised, topic, fresh, channel_active, tx_ok, send_ret,
                   npub, tx_idx, sent_since_pub, trues_since_pub,
                   pubs_since_true, unsent_old, n_true, concVars>>

\* The scheduler calls send().
Send ==
    /\ send
    /\ op' = "send"
    /\ sent_since_pub' = TRUE
    /\ trues_since_pub' = IF send_ret' THEN Min(trues_since_pub + 1, 2)
                          ELSE trues_since_pub
    /\ pubs_since_true' = IF send_ret' THEN 0 ELSE pubs_since_true
    /\ n_true' = IF send_ret' THEN Min(n_true + 1, MaxPublish + 1) ELSE n_true
    /\ UNCHANGED <<channel_active, size_ret, npub, unsent_old, concVars>>

Next ==
    \/ Advertise
    \/ \E r \in avesaid_status_s : Publish(r)
    \/ ChannelChange
    \/ GetSize
    \/ Send

Spec == Init /\ [][Next]_vars

TypeOK ==
    /\ advertised \in BOOLEAN
    /\ topic \in avesaid_status_s
    /\ fresh \in BOOLEAN
    /\ channel_active \in BOOLEAN
    /\ Len(out) <= 1
    /\ tx_ok \in BOOLEAN
    /\ op \in {"init", "advertise", "publish", "channel", "get_size", "send"}
    /\ send_ret \in BOOLEAN
    /\ size_ret \in {-1, 0, MAVLINK_MSG_ID_AVESAID_STATUS_LEN + MAVLINK_NUM_NON_PAYLOAD_BYTES}
    /\ npub \in 0..MaxPublish
    /\ Range(tx_idx) \subseteq 1..MaxPublish
    /\ unsent_old \subseteq 1..MaxPublish

\* ------------------------------------ the producer and send(), step by step

\* SpecConc runs the producer beside the scheduler thread.  A publish takes two
\* steps under the topic's lock, so the stored value is half written between
\* them; send() takes two steps, update() (line 65) and the rest (lines 67-79),
\* so a publish can fall between them.

\* The records the producer publishes in SpecConc and SpecFair: every
\* timestamp, with the five flags all clear or all set.
ConcRecords ==
    {r \in avesaid_status_s :
        /\ r.flag_mode_partial_attachment_enabled = r.flag_mode_attachment_enabled
        /\ r.flag_magnet_enabled = r.flag_mode_attachment_enabled
        /\ r.flag_height_source_baro_enabled = r.flag_mode_attachment_enabled
        /\ r.flag_height_source_slam_enabled = r.flag_mode_attachment_enabled}

\* The operations of Spec, the producer publishing records of ConcRecords.
NextFair ==
    \/ Advertise
    \/ \E r \in ConcRecords : Publish(r)
    \/ ChannelChange
    \/ GetSize
    \/ Send

\* The scheduler keeps calling send(): a send() that would change the state is
\* not put off forever.
SpecFair == Init /\ [][NextFair]_vars /\ WF_vars(Send)

\* The variables SpecConc leaves to Spec.
specOnlyVars == <<channel_active, size_ret, npub, tx_idx, sent_since_pub,
                  trues_since_pub, pubs_since_true, unsent_old, n_true>>

\* orb_publish, first half: the producer takes the lock and stores the first
\* field of the record.
PublishBegin(r) ==
    /\ ~writing
    /\ Len(pub_log) < MaxConcPublish
    /\ writing' = TRUE
    /\ pending' = r
    /\ topic' = [topic EXCEPT !.timestamp = r.timestamp]
    /\ advertised' = TRUE
    /\ op' = "publish"
    /\ out' = <<>>
    /\ UNCHANGED <<fresh, tx_ok, send_ret, pc, local, pub_log, tx_log,
                   specOnlyVars>>

\* orb_publish, second half: the rest of the record is stored, the slot is
\* marked fresh and the lock is released.
PublishEnd ==
    /\ writing
    /\ topic' = pending
    /\ fresh' = TRUE
    /\ writing' = FALSE
    /\ pub_log' = Append(pub_log, pending)
    /\ op' = "publish"
    /\ out' = <<>>
    /\ UNCHANGED <<advertised, tx_ok, send_ret, pc, local, pending, tx_log,
                   specOnlyVars>>

\* mavlink_msg_avesaid_status_send_struct(chan, &msg) in SpecConc: as above,
\* the message logged.
ConcSendStruct(msg) ==
    /\ out' = <<msg>>
    /\ tx_log' = Append(tx_log, msg)
    /\ tx_ok' \in (IF channel_active THEN BOOLEAN ELSE {FALSE})

\* Mutant of local_avesaid_status: the message is filled from the topic's
\* storage instead of the copy update() made.
local_avesaid_status_shared == topic

\* Line 62: avesaid_status, the local that update() filled and lines 69-74 read.
local_avesaid_status == local

\* Mutant of SendUpdate: the subscription is read with copy() instead of
\* update(), so a value already sent is taken again.
SendUpdate_copy ==
    /\ pc = "idle"
    /\ ~writing
    /\ fresh' = FALSE
    /\ UNCHANGED <<advertised, topic>>
    /\ out' = <<>>
    /\ IF pub_log # <<>>
       THEN /\ local' = topic
            /\ pc' = "copied"
            /\ UNCHANGED <<op, send_ret>>
       ELSE /\ send_ret' = FALSE
            /\ op' = "send"
            /\ UNCHANGED <<pc, local>>
    /\ UNCHANGED <<tx_ok, writing, pending, pub_log, tx_log, specOnlyVars>>

\* send(), lines 62-65: update() takes its snapshot under the topic's lock.
\* With nothing fresh send() returns false (line 82).
SendUpdate ==
    /\ pc = "idle"
    /\ ~writing
    /\ \E updated \in BOOLEAN :
           /\ Subscription_update(updated)
           /\ out' = <<>>
           /\ IF updated
              THEN /\ local' = topic
                   /\ pc' = "copied"
                   /\ UNCHANGED <<op, send_ret>>
              ELSE /\ send_ret' = FALSE
                   /\ op' = "send"
                   /\ UNCHANGED <<pc, local>>
    /\ UNCHANGED <<tx_ok, writing, pending, pub_log, tx_log, specOnlyVars>>

\* send(), lines 67-79: the message is filled from the local copy, handed to
\* the transport, and send() returns true.
SendWrite ==
    /\ pc = "copied"
    /\ ConcSendStruct(PopulateMsg(local_avesaid_status))
    /\ send_ret' = TRUE
    /\ op' = "send"
    /\ pc' = "idle"
    /\ local' = ZeroStatus
    /\ UNCHANGED <<advertised, topic, fresh, writing, pending, pub_log,
                   specOnlyVars>>

NextConc ==
    \/ \E r \in ConcRecords : PublishBegin(r)
    \/ PublishEnd
    \/ SendUpdate
    \/ SendWrite

SpecConc == Init /\ [][NextConc]_vars

\* ------------------------------------------------------------------ claims

WireSize == MAVLINK_MSG_ID_AVESAID_STATUS_LEN + MAVLINK_NUM_NON_PAYLOAD_BYTES

\* A transport write happens in a step: one more record handed over.
Wrote == Len(tx_idx') = Len(tx_idx) + 1

\* Message msg has the six fields of record rec, each under its own name.
Carries(msg, rec) ==
    /\ msg.timestamp = rec.timestamp
    /\ msg.flag_mode_attachment_enabled = rec.flag_mode_attachment_enabled
    /\ msg.flag_mode_partial_attachment_enabled =
           rec.flag_mode_partial_attachment_enabled
    /\ msg.flag_magnet_enabled = rec.flag_magnet_enabled
    /\ msg.flag_height_source_baro_enabled = rec.flag_height_source_baro_enabled
    /\ msg.flag_height_source_slam_enabled = rec.flag_height_source_slam_enabled

StrictlyIncreasing(s) == \A i \in 1..Len(s) : \A j \in 1..Len(s) : i < j => s[i] < s[j]

\* C1: a send() that follows exactly one publish since the last send() that
\* returned true returns true and performs exactly one transport write.
C1_OnePublishOneWrite ==
    [][(pubs_since_true = 1 /\ op' = "send")
          => (send_ret' = TRUE /\ Len(out') = 1 /\ Wrote)]_vars

\* C1 witness: the second publish was sent by a send() that returned true,
\* after the first had been sent.
C1_Witness ==
    op = "send" /\ send_ret /\ Len(out) = 1 /\ tx_idx = <<1, 2>>

\* C2: a send() called after another send() with no publish between the two
\* returns false and writes nothing, whatever the first returned.
C2_SecondSendFalse ==
    [][(sent_since_pub /\ op' = "send")
          => (send_ret' = FALSE /\ out' = <<>> /\ tx_idx' = tx_idx)]_vars

\* C2 witness: the first send() after a publish returned true, the next one
\* returned false.
C2_Witness ==
    op = "send" /\ ~send_ret /\ trues_since_pub = 1 /\ out = <<>> /\ npub >= 1

\* C3: last value wins.  After k publishes with no send() between them, exactly
\* one of the following send() calls returns true, its message carries the
\* latest record, and no overwritten record is ever written.
C3_LastValueWins ==
    /\ (op = "send" /\ npub >= 1)
          => /\ trues_since_pub = 1
             /\ tx_idx # <<>>
             /\ tx_idx[Len(tx_idx)] = npub
    /\ (op = "send" /\ send_ret) => (Len(out) = 1 /\ Carries(out[1], topic))
    /\ unsent_old \cap Range(tx_idx) = {}

\* C3 witness: three publishes, then two send() calls: only the third record
\* was written, and the second send() returned false.
C3_Witness ==
    /\ op = "send" /\ ~send_ret /\ trues_since_pub = 1
    /\ unsent_old = {1, 2} /\ tx_idx = <<3>>

\* C4: get_size() returns 0 while no publisher has ever attached, and the same
\* positive constant afterwards, whatever was published or sent.
C4_SizeByAdvertised ==
    /\ WireSize > 0
    /\ get_size = (IF advertised THEN WireSize ELSE 0)
    /\ op = "get_size" => size_ret = (IF advertised THEN WireSize ELSE 0)

\* C4 witness: get_size() returned the constant after two publishes and one
\* write.
C4_Witness ==
    op = "get_size" /\ size_ret = WireSize /\ npub = 2 /\ Len(tx_idx) = 1

\* C5: get_size() is monotone: after a non-zero return every later return is
\* non-zero, and its value changes only from 0 to non-zero, in the step in which
\* a publisher attaches.
C5_SizeMonotone ==
    [][/\ (size_ret > 0 /\ op' = "get_size") => size_ret' > 0
       /\ get_size' # get_size => (~advertised /\ advertised' /\ get_size = 0)]_vars

\* C5 witness: get_size() returned non-zero, the value was then consumed by
\* send(), and a later get_size() returned non-zero again.
C5_Witness ==
    op = "get_size" /\ size_ret > 0 /\ ~fresh /\ Len(tx_idx) >= 1

\* C6: whenever send() returns true, the message handed to the transport has
\* timestamp and each of the five flags equal to the field of the same name in
\* the record update() returned.
C6_FieldsVerbatim ==
    (op = "send" /\ send_ret) => (Len(out) = 1 /\ Carries(out[1], topic))

\* C6 witness: the record with flags {true, false, true, false, true} and a
\* non-zero timestamp was sent.
C6_Witness ==
    /\ op = "send" /\ send_ret /\ Len(out) = 1
    /\ topic.timestamp = 1
    /\ topic.flag_mode_attachment_enabled
    /\ ~topic.flag_mode_partial_attachment_enabled
    /\ topic.flag_magnet_enabled
    /\ ~topic.flag_height_source_baro_enabled
    /\ topic.flag_height_source_slam_enabled

\* C7: a send() made when the subscription has no fresh value returns false
\* and changes nothing: no write, the transport log, the freshness and the
\* stored value as before; a repeated such call leaves the state as it is.
C7_NoFreshNoEffect ==
    [][(~fresh /\ op' = "send")
          => /\ send_ret' = FALSE
             /\ out' = <<>>
             /\ UNCHANGED <<advertised, topic, fresh, tx_idx, tx_ok, npub>>
             /\ (op = "send" /\ ~send_ret) => UNCHANGED vars]_vars

\* C7 witness: a record was sent, and a later send() found nothing fresh.
C7_Witness ==
    op = "send" /\ ~send_ret /\ ~fresh /\ tx_idx = <<1>> /\ npub = 1

\* C8: while no publisher has attached, get_size() returns 0 and send()
\* returns false without a write; send() returns true only where get_size()
\* is non-zero.
C8_IdleSilent ==
    /\ ~advertised
          => /\ get_size = 0
             /\ op = "get_size" => size_ret = 0
             /\ size_ret \in {-1, 0}
             /\ send_ret = FALSE
             /\ out = <<>>
             /\ tx_idx = <<>>
    /\ (op = "send" /\ send_ret) => get_size # 0

\* C8 witness: with no publisher, get_size() returned 0 and then send()
\* returned false.
C8_Witness ==
    ~advertised /\ op = "send" /\ size_ret = 0 /\ ~send_ret /\ tx_idx = <<>>

\* C9 as stated: no transport write happens in a state where the subscription
\* has no fresh value or where the channel is not active.
C9_Original ==
    [][Wrote => (fresh /\ channel_active)]_vars

\* C9 amended: a transport write happens only in a send() that finds a fresh
\* value, and every such send() writes, whether the channel is active or not.
C9_WriteIffFresh ==
    [][/\ Wrote => (fresh /\ op' = "send")
       /\ (fresh /\ op' = "send") => (Wrote /\ Len(out') = 1)]_vars

\* C9 witness: send() handed a message to the transport on a channel that is
\* not active.
C9_Witness ==
    op = "send" /\ send_ret /\ Len(out) = 1 /\ ~channel_active

\* C10: the return value of send() is decided by freshness alone.  With a
\* fresh value send() returns true and consumes it whether the transport
\* transmits or drops the message; a dropped message is never written again.
C10_TxFailureNotSurfaced ==
    [][op' = "send"
          => /\ send_ret' = fresh
             /\ fresh' = FALSE
             /\ StrictlyIncreasing(tx_idx')
             /\ (sent_since_pub /\ ~tx_ok) => (tx_idx' = tx_idx /\ ~send_ret')]_vars

\* C10 witness: the transport dropped the message on an active channel,
\* send() had returned true, and the next send() returned false and wrote
\* nothing.
C10_Witness ==
    /\ op = "send" /\ ~send_ret /\ out = <<>>
    /\ ~tx_ok /\ channel_active /\ tx_idx = <<1>> /\ npub = 1

\* C11: with the producer publishing beside the scheduler thread, every
\* message written to the transport equals, in all six fields together, one
\* record that was completely published; none mixes two records or carries a
\* half-written one.
C11_NoTornMessage ==
    /\ \A i \in 1..Len(tx_log) :
           \E j \in 1..Len(pub_log) : Carries(tx_log[i], pub_log[j])
    /\ \A i \in 1..Len(out) :
           \E j \in 1..Len(pub_log) : Carries(out[i], pub_log[j])

\* C11 witness: send() wrote its message while the producer was inside a
\* publish and the topic held a half-written value equal to no published record.
C11_Witness ==
    /\ op = "send" /\ send_ret /\ Len(out) = 1 /\ writing
    /\ \A j \in 1..Len(pub_log) : topic # pub_log[j]

\* C13: nothing is buffered or retried.  The number of transport writes equals
\* the number of send() calls that returned true, a send() call performs at
\* most one write, and the writes never outnumber the publishes.
C13_NoBufferNoRetry ==
    /\ Len(tx_idx) = n_true
    /\ Len(out) <= 1
    /\ Len(tx_idx) <= npub

\* C13 witness: three publishes, two writes, two send() calls that returned
\* true, and a last send() that returned false.
C13_Witness ==
    /\ op = "send" /\ ~send_ret /\ out = <<>>
    /\ npub = 3 /\ n_true = 2 /\ Len(tx_idx) = 2

\* Messages s[i..] are carried, in order, by records among t[j..].
RECURSIVE SubseqFrom(_, _, _, _)
SubseqFrom(s, i, t, j) ==
    IF i > Len(s) THEN TRUE
    ELSE IF j > Len(t) THEN FALSE
    ELSE IF Carries(s[i], t[j]) THEN SubseqFrom(s, i + 1, t, j + 1)
    ELSE SubseqFrom(s, i, t, j + 1)

\* C14: over any interleaving of publishes and send() calls the sequence of
\* records written is a subsequence of the sequence of published records, in
\* publish order: none written twice, none that was not published, none after
\* a record published later.
C14_WrittenSubsequence ==
    SubseqFrom(tx_log, 1, pub_log, 1)

\* C14 witness: three different records published, the first and the third
\* written, the second skipped.
C14_Witness ==
    /\ Len(pub_log) = 3 /\ Len(tx_log) = 2
    /\ Carries(tx_log[1], pub_log[1]) /\ Carries(tx_log[2], pub_log[3])
    /\ pub_log[2] # pub_log[1] /\ pub_log[2] # pub_log[3]
    /\ pub_log[1] # pub_log[3]

\* C15: get_size() does not touch freshness.  A get_size() call changes nothing
\* of the bus or the transport, and a send() that follows it returns what the
\* publishes and send() calls alone decide (true exactly when a publish came
\* after the last send()) and writes the stored record.
C15_SizeIsPureQuery ==
    [][/\ op' = "get_size"
             => UNCHANGED <<advertised, topic, fresh, channel_active, tx_idx,
                            tx_ok, send_ret, npub>>
       /\ (op = "get_size" /\ op' = "send")
             => /\ send_ret' = (npub >= 1 /\ ~sent_since_pub)
                /\ send_ret' => (Len(out') = 1 /\ Carries(out'[1], topic))
                /\ ~send_ret' => out' = <<>>]_vars

\* C15 witness: get_size() was called after the second publish and before the
\* send() for it, and the value is still fresh.
C15_Witness ==
    op = "get_size" /\ size_ret > 0 /\ fresh /\ npub = 2 /\ tx_idx = <<1>>

\* C16: under a scheduler that keeps calling send(), every published record is
\* followed by a transport write that carries it or a record published after
\* it.
C16_FreshEventuallySent ==
    \A k \in 1..MaxPublish :
        (npub >= k) ~> (\E i \in 1..Len(tx_idx) : tx_idx[i] >= k)

\* C16 witness: the first record was overwritten before any send(), and the
\* second, published after it, was written.
C16_Witness ==
    npub = 2 /\ tx_idx = <<2>> /\ unsent_old = {1} /\ op = "send" /\ send_ret

=============================================================================
